---- MODULE Spec2Model ----
(***************************************************************************)
(* The stack-and-register virtual machine of src/src/main.rs: Context,     *)
(* Context::run (the fetch/execute loop) and Context::execute_ix (one      *)
(* handler per OpCode).                                                    *)
(*                                                                         *)
(* Integers: TLC's integers are 32 bits wide, so the i64 / usize words of  *)
(* the machine are modelled by two's-complement words of Bits bits. Every  *)
(* width-dependent step of the code (the `as usize` casts, the overflow of *)
(* + - * /) is computed on that width.                                     *)
(***************************************************************************)
EXTENDS Integers, Sequences, FiniteSets, TLC

VARIABLES pc, stack, call_stack, registers, memory, program,
          overflow_checks, status, result, error, debug, printed

vars == <<pc, stack, call_stack, registers, memory, program,
          overflow_checks, status, result, error, debug, printed>>

(***************************************************************************)
(* Bounds of the model.                                                    *)
(***************************************************************************)
\* width of a machine word (i64 and usize) in the model
Bits == 8
\* longest program of the exhaustive program set
MaxLen == 2
\* the operand stack is not pushed beyond this length
MaxStack == 4
\* the call stack is not pushed beyond this length
MaxCalls == 3

(***************************************************************************)
(* Words.                                                                  *)
(***************************************************************************)
Modulus == 2 ^ Bits
MaxInt == 2 ^ (Bits - 1) - 1
MinInt == 0 - 2 ^ (Bits - 1)

\* `x as usize` for an i64 x: the same bits read as unsigned
AsUsize(x) == IF x < 0 THEN x + Modulus ELSE x

\* two's-complement wrap of a mathematical result into the word
Wrap(x) == ((x - MinInt) % Modulus) + MinInt

Overflows(x) == x < MinInt \/ x > MaxInt

Abs(x) == IF x < 0 THEN 0 - x ELSE x

\* mutant of TruncDiv: the quotient rounded toward minus infinity
TruncDiv_Floor(a, b) == a \div b

\* Rust's integer `/`: the quotient truncated toward zero (b # 0)
TruncDiv(a, b) ==
    IF (a < 0) = (b < 0) THEN Abs(a) \div Abs(b) ELSE 0 - (Abs(a) \div Abs(b))

(***************************************************************************)
(* OpCode, Instruction, the register file.                                 *)
(***************************************************************************)
OpCode == {"Push", "Pop", "Add", "Sub", "Mul", "Div", "LoadReg", "StoreReg",
           "Load", "Store", "Jump", "JumpEq", "JumpGt", "JumpLt",
           "Call", "Return", "Exit"}

Instruction(op, ops) == [opcode |-> op, operands |-> ops]

NumRegisters == 11

RegIndex == 0 .. (NumRegisters - 1)

(***************************************************************************)
(* The error strings of the code (the Err values of run and execute_ix).   *)
(* The formatted ones are kept without the number they print.              *)
(***************************************************************************)
ProgramTerminatedWithoutExit == "Program terminated without explicit exit"
DivisionByZero == "Division by zero"
InvalidRegisterIndex == "Invalid register index"
JumpTargetOutOfBounds == "Jump target out of bounds"
FunctionAddressOutOfBounds == "Function address out of bounds"
CallStackUnderflow == "Call stack underflow (unmatched return)"

\* the messages of the failed pops of the operand stack
StackUnderflow ==
    {"Stack Underflow => => b in Pop Op", "Stack Underflow => b in Add Op",
     "Stack underflow => b in Sub Op", "Stack underflow => b in Mul Op",
     "Stack underflow => b in Div Op", "Stack underflow => a in Div op",
     "Stack Overflow => StoreReg Op",
     "Stack underflow => b in JumpEq Op", "Stack underflow => a in JumpEq Op",
     "Stack underflow => b in JumpGt Op", "Stack underflow => a in JumpGt Op",
     "Stack underflow => b in JumpLt Op",
     "Stack Underflow => value in Store Op"}

\* the messages of the is_empty() checks of the operands
MissingOperand ==
    {"Push requires an operand", "LoadReg requires a register index operand",
     "StoreReg requires a register index operand",
     "Jump requires a target address operand",
     "JumpEq requires a target address operand",
     "JumpGt requires a target address operand",
     "Call requires a function address operand",
     "Load requires an address operand", "Store requires an address operand"}

\* the panics of the build: an index past the end of program (line 81), an
\* arithmetic overflow (overflow checks on; i64::MIN / -1 in every build)
IndexOutOfBounds == "index out of bounds"
ArithmeticOverflow == "arithmetic overflow"

(***************************************************************************)
(* Helpers on the two Vec stacks.                                          *)
(***************************************************************************)
Top(s) == s[Len(s)]

Popped(s) == SubSeq(s, 1, Len(s) - 1)

\* HashMap::get(&addr).unwrap_or(&0)
MemGet(m, addr) == IF addr \in DOMAIN m THEN m[addr] ELSE 0

\* mutant of MemInsert: the first value written to an address is kept
MemInsert_KeepFirst(m, addr, value) ==
    [x \in (DOMAIN m) \cup {addr} |-> IF x \in DOMAIN m THEN m[x] ELSE value]

\* HashMap::insert(addr, value)
MemInsert(m, addr, value) ==
    [x \in (DOMAIN m) \cup {addr} |-> IF x = addr THEN value ELSE m[x]]

(***************************************************************************)
(* The position of run. status is "fetch" at the loop test of line 62,     *)
(* "check" after execute_ix returned Ok (line 81), and then one of the     *)
(* three ways run ends: "halted" (Ok(registers[0])), "failed" (Err(error)) *)
(* and "panicked" (the thread panics; run returns nothing).                *)
(***************************************************************************)
\* mutant of Running: the loop goes on after a handler failed
Running_AfterFailure == status \in {"fetch", "failed"} /\ pc < Len(program)

Running == status = "fetch" /\ pc < Len(program)

\* the instruction run cloned at line 63
ix == program[pc + 1]

\* execute_ix returns Ok(())
Ok == status' = "check" /\ error' = ""

\* execute_ix returns Err(msg) and `?` returns it from run
Err(msg) == status' = "failed" /\ error' = msg

Panic(msg) == status' = "panicked" /\ error' = msg

\* what no handler writes
Fixed == UNCHANGED <<program, overflow_checks, result>>

(***************************************************************************)
(* execute_ix: the stack and arithmetic handlers.                          *)
(***************************************************************************)
Push ==
    /\ Running /\ ix.opcode = "Push"
    /\ IF ix.operands = <<>>
       THEN /\ Err("Push requires an operand")
            /\ UNCHANGED <<pc, stack>>
       ELSE /\ Len(stack) < MaxStack
            /\ stack' = Append(stack, ix.operands[1])
            /\ pc' = pc + 1
            /\ Ok
    /\ UNCHANGED <<call_stack, registers, memory>>
    /\ Fixed

Pop ==
    /\ Running /\ ix.opcode = "Pop"
    /\ IF stack = <<>>
       THEN /\ Err("Stack Underflow => => b in Pop Op")
            /\ UNCHANGED <<pc, stack>>
       ELSE /\ stack' = Popped(stack)
            /\ pc' = pc + 1
            /\ Ok
    /\ UNCHANGED <<call_stack, registers, memory>>
    /\ Fixed

\* self.stack.push(r); self.pc += 1 for the result r of + - *: with overflow
\* checks the evaluation of r panics before the push, without them r wraps
PushResult(rest, r) ==
    IF Overflows(r) /\ overflow_checks
    THEN /\ Panic(ArithmeticOverflow)
         /\ stack' = rest
         /\ UNCHANGED pc
    ELSE /\ stack' = Append(rest, Wrap(r))
         /\ pc' = pc + 1
         /\ Ok

Add ==
    /\ Running /\ ix.opcode = "Add"
    /\ IF stack = <<>>
       THEN /\ Err("Stack Underflow => b in Add Op")
            /\ UNCHANGED <<pc, stack>>
       ELSE LET b == Top(stack)
                s1 == Popped(stack)
            IN  IF s1 = <<>>
                THEN /\ Err("Stack Underflow => b in Add Op")
                     /\ stack' = s1
                     /\ UNCHANGED pc
                ELSE LET a == Top(s1)
                     IN  PushResult(Popped(s1), a + b)
    /\ UNCHANGED <<call_stack, registers, memory>>
    /\ Fixed

Sub ==
    /\ Running /\ ix.opcode = "Sub"
    /\ IF stack = <<>>
       THEN /\ Err("Stack underflow => b in Sub Op")
            /\ UNCHANGED <<pc, stack>>
       ELSE LET b == Top(stack)
                s1 == Popped(stack)
            IN  IF s1 = <<>>
                THEN /\ Err("Stack underflow => b in Sub Op")
                     /\ stack' = s1
                     /\ UNCHANGED pc
                ELSE LET a == Top(s1)
                     IN  PushResult(Popped(s1), a - b)
    /\ UNCHANGED <<call_stack, registers, memory>>
    /\ Fixed

Mul ==
    /\ Running /\ ix.opcode = "Mul"
    /\ IF stack = <<>>
       THEN /\ Err("Stack underflow => b in Mul Op")
            /\ UNCHANGED <<pc, stack>>
       ELSE LET b == Top(stack)
                s1 == Popped(stack)
            IN  IF s1 = <<>>
                THEN /\ Err("Stack underflow => b in Mul Op")
                     /\ stack' = s1
                     /\ UNCHANGED pc
                ELSE LET a == Top(s1)
                     IN  PushResult(Popped(s1), a * b)
    /\ UNCHANGED <<call_stack, registers, memory>>
    /\ Fixed

\* mutant of Div: both operands are popped before b is tested
Div_PopsBoth ==
    /\ Running /\ ix.opcode = "Div"
    /\ IF stack = <<>>
       THEN /\ Err("Stack underflow => b in Div Op")
            /\ UNCHANGED <<pc, stack>>
       ELSE LET b == Top(stack)
                s1 == Popped(stack)
            IN  IF s1 = <<>>
                THEN /\ Err("Stack underflow => a in Div op")
                     /\ stack' = s1
                     /\ UNCHANGED pc
                ELSE IF b = 0
                THEN /\ Err(DivisionByZero)
                     /\ stack' = Popped(s1)
                     /\ UNCHANGED pc
                ELSE /\ stack' = Append(Popped(s1), TruncDiv(Top(s1), b))
                     /\ pc' = pc + 1
                     /\ Ok
    /\ UNCHANGED <<call_stack, registers, memory>>
    /\ Fixed

\* b is popped and tested before a is popped; i64::MIN / -1 panics in every
\* build
Div ==
    /\ Running /\ ix.opcode = "Div"
    /\ IF stack = <<>>
       THEN /\ Err("Stack underflow => b in Div Op")
            /\ UNCHANGED <<pc, stack>>
       ELSE LET b == Top(stack)
                s1 == Popped(stack)
            IN  IF b = 0
                THEN /\ Err(DivisionByZero)
                     /\ stack' = s1
                     /\ UNCHANGED pc
                ELSE IF s1 = <<>>
                THEN /\ Err("Stack underflow => a in Div op")
                     /\ stack' = s1
                     /\ UNCHANGED pc
                ELSE LET a == Top(s1)
                     IN  IF a = MinInt /\ b = 0 - 1
                         THEN /\ Panic(ArithmeticOverflow)
                              /\ stack' = Popped(s1)
                              /\ UNCHANGED pc
                         ELSE /\ stack' = Append(Popped(s1), TruncDiv(a, b))
                              /\ pc' = pc + 1
                              /\ Ok
    /\ UNCHANGED <<call_stack, registers, memory>>
    /\ Fixed

(***************************************************************************)
(* execute_ix: the register handlers.                                      *)
(***************************************************************************)
\* mutant of ValidRegister: the last register is rejected
ValidRegister_Short(reg_idx) == reg_idx < NumRegisters - 1

\* reg_idx >= self.registers.len() is the failure
ValidRegister(reg_idx) == reg_idx < NumRegisters

LoadReg ==
    /\ Running /\ ix.opcode = "LoadReg"
    /\ IF ix.operands = <<>>
       THEN /\ Err("LoadReg requires a register index operand")
            /\ UNCHANGED <<pc, stack>>
       ELSE LET reg_idx == AsUsize(ix.operands[1])
            IN  IF ~ValidRegister(reg_idx)
                THEN /\ Err(InvalidRegisterIndex)
                     /\ UNCHANGED <<pc, stack>>
                ELSE /\ Len(stack) < MaxStack
                     /\ stack' = Append(stack, registers[reg_idx])
                     /\ pc' = pc + 1
                     /\ Ok
    /\ UNCHANGED <<call_stack, registers, memory>>
    /\ Fixed

\* mutant of StoreReg: the value is popped before the index is tested
StoreReg_PopFirst ==
    /\ Running /\ ix.opcode = "StoreReg"
    /\ IF ix.operands = <<>>
       THEN /\ Err("StoreReg requires a register index operand")
            /\ UNCHANGED <<pc, stack, registers>>
       ELSE LET reg_idx == AsUsize(ix.operands[1])
            IN  IF stack = <<>>
                THEN /\ Err("Stack Overflow => StoreReg Op")
                     /\ UNCHANGED <<pc, stack, registers>>
                ELSE IF ~ValidRegister(reg_idx)
                THEN /\ Err(InvalidRegisterIndex)
                     /\ stack' = Popped(stack)
                     /\ UNCHANGED <<pc, registers>>
                ELSE /\ stack' = Popped(stack)
                     /\ registers' = [registers EXCEPT ![reg_idx] = Top(stack)]
                     /\ pc' = pc + 1
                     /\ Ok
    /\ UNCHANGED <<call_stack, memory>>
    /\ Fixed

StoreReg ==
    /\ Running /\ ix.opcode = "StoreReg"
    /\ IF ix.operands = <<>>
       THEN /\ Err("StoreReg requires a register index operand")
            /\ UNCHANGED <<pc, stack, registers>>
       ELSE LET reg_idx == AsUsize(ix.operands[1])
            IN  IF ~ValidRegister(reg_idx)
                THEN /\ Err(InvalidRegisterIndex)
                     /\ UNCHANGED <<pc, stack, registers>>
                ELSE IF stack = <<>>
                THEN /\ Err("Stack Overflow => StoreReg Op")
                     /\ UNCHANGED <<pc, stack, registers>>
                ELSE /\ stack' = Popped(stack)
                     /\ registers' = [registers EXCEPT ![reg_idx] = Top(stack)]
                     /\ pc' = pc + 1
                     /\ Ok
    /\ UNCHANGED <<call_stack, memory>>
    /\ Fixed

(***************************************************************************)
(* execute_ix: the control-flow handlers. The target is tested before the  *)
(* operands of the comparison are popped.                                  *)
(***************************************************************************)
\* mutant of ValidJumpTarget: the bound of Call, which accepts the length
ValidJumpTarget_Relaxed(target) == target <= Len(program)

\* target >= self.program.len() is the failure
ValidJumpTarget(target) == target < Len(program)

Jump ==
    /\ Running /\ ix.opcode = "Jump"
    /\ IF ix.operands = <<>>
       THEN /\ Err("Jump requires a target address operand")
            /\ UNCHANGED pc
       ELSE LET target == AsUsize(ix.operands[1])
            IN  IF ~ValidJumpTarget(target)
                THEN /\ Err(JumpTargetOutOfBounds)
                     /\ UNCHANGED pc
                ELSE /\ pc' = target
                     /\ Ok
    /\ UNCHANGED <<stack, call_stack, registers, memory>>
    /\ Fixed

JumpEq ==
    /\ Running /\ ix.opcode = "JumpEq"
    /\ IF ix.operands = <<>>
       THEN /\ Err("JumpEq requires a target address operand")
            /\ UNCHANGED <<pc, stack>>
       ELSE LET target == AsUsize(ix.operands[1])
            IN  IF ~ValidJumpTarget(target)
                THEN /\ Err(JumpTargetOutOfBounds)
                     /\ UNCHANGED <<pc, stack>>
                ELSE IF stack = <<>>
                THEN /\ Err("Stack underflow => b in JumpEq Op")
                     /\ UNCHANGED <<pc, stack>>
                ELSE LET b == Top(stack)
                         s1 == Popped(stack)
                     IN  IF s1 = <<>>
                         THEN /\ Err("Stack underflow => a in JumpEq Op")
                              /\ stack' = s1
                              /\ UNCHANGED pc
                         ELSE LET a == Top(s1)
                              IN  /\ stack' = Popped(s1)
                                  /\ pc' = IF a = b THEN target ELSE pc + 1
                                  /\ Ok
    /\ UNCHANGED <<call_stack, registers, memory>>
    /\ Fixed

\* mutant of JumpGt: the operands are compared in the order they are popped
JumpGt_Swapped ==
    /\ Running /\ ix.opcode = "JumpGt"
    /\ IF ix.operands = <<>>
       THEN /\ Err("JumpGt requires a target address operand")
            /\ UNCHANGED <<pc, stack>>
       ELSE LET target == AsUsize(ix.operands[1])
            IN  IF ~ValidJumpTarget(target)
                THEN /\ Err(JumpTargetOutOfBounds)
                     /\ UNCHANGED <<pc, stack>>
                ELSE IF stack = <<>>
                THEN /\ Err("Stack underflow => b in JumpGt Op")
                     /\ UNCHANGED <<pc, stack>>
                ELSE LET b == Top(stack)
                         s1 == Popped(stack)
                     IN  IF s1 = <<>>
                         THEN /\ Err("Stack underflow => a in JumpGt Op")
                              /\ stack' = s1
                              /\ UNCHANGED pc
                         ELSE LET a == Top(s1)
                              IN  /\ stack' = Popped(s1)
                                  /\ pc' = IF b > a THEN target ELSE pc + 1
                                  /\ Ok
    /\ UNCHANGED <<call_stack, registers, memory>>
    /\ Fixed

JumpGt ==
    /\ Running /\ ix.opcode = "JumpGt"
    /\ IF ix.operands = <<>>
       THEN /\ Err("JumpGt requires a target address operand")
            /\ UNCHANGED <<pc, stack>>
       ELSE LET target == AsUsize(ix.operands[1])
            IN  IF ~ValidJumpTarget(target)
                THEN /\ Err(JumpTargetOutOfBounds)
                     /\ UNCHANGED <<pc, stack>>
                ELSE IF stack = <<>>
                THEN /\ Err("Stack underflow => b in JumpGt Op")
                     /\ UNCHANGED <<pc, stack>>
                ELSE LET b == Top(stack)
                         s1 == Popped(stack)
                     IN  IF s1 = <<>>
                         THEN /\ Err("Stack underflow => a in JumpGt Op")
                              /\ stack' = s1
                              /\ UNCHANGED pc
                         ELSE LET a == Top(s1)
                              IN  /\ stack' = Popped(s1)
                                  /\ pc' = IF a > b THEN target ELSE pc + 1
                                  /\ Ok
    /\ UNCHANGED <<call_stack, registers, memory>>
    /\ Fixed

\* the messages of JumpLt are the code's: "JumpGt requires ...", "b" twice
JumpLt ==
    /\ Running /\ ix.opcode = "JumpLt"
    /\ IF ix.operands = <<>>
       THEN /\ Err("JumpGt requires a target address operand")
            /\ UNCHANGED <<pc, stack>>
       ELSE LET target == AsUsize(ix.operands[1])
            IN  IF ~ValidJumpTarget(target)
                THEN /\ Err(JumpTargetOutOfBounds)
                     /\ UNCHANGED <<pc, stack>>
                ELSE IF stack = <<>>
                THEN /\ Err("Stack underflow => b in JumpLt Op")
                     /\ UNCHANGED <<pc, stack>>
                ELSE LET b == Top(stack)
                         s1 == Popped(stack)
                     IN  IF s1 = <<>>
                         THEN /\ Err("Stack underflow => b in JumpLt Op")
                              /\ stack' = s1
                              /\ UNCHANGED pc
                         ELSE LET a == Top(s1)
                              IN  /\ stack' = Popped(s1)
                                  /\ pc' = IF a < b THEN target ELSE pc + 1
                                  /\ Ok
    /\ UNCHANGED <<call_stack, registers, memory>>
    /\ Fixed

(***************************************************************************)
(* execute_ix: Call and Return.                                            *)
(***************************************************************************)


\* mutant of ValidCallTarget: the address is not tested
ValidCallTarget_Unchecked(func_addr) == TRUE

\* mutant of ValidCallTarget: the strict bound of the jumps
ValidCallTarget_Strict(func_addr) == func_addr < Len(program)

\* func_addr > self.program.len() is the failure
ValidCallTarget(func_addr) == func_addr <= Len(program)

\* mutant of ReturnAddress: the address of the call itself
ReturnAddress_Same(call_pc) == call_pc

\* the return address Call saves: the next instruction after the call
ReturnAddress(call_pc) == call_pc + 1

Call ==
    /\ Running /\ ix.opcode = "Call"
    /\ IF ix.operands = <<>>
       THEN /\ Err("Call requires a function address operand")
            /\ UNCHANGED <<pc, call_stack>>
       ELSE LET func_addr == AsUsize(ix.operands[1])
            IN  IF ~ValidCallTarget(func_addr)
                THEN /\ Err(FunctionAddressOutOfBounds)
                     /\ UNCHANGED <<pc, call_stack>>
                ELSE /\ Len(call_stack) < MaxCalls
                     /\ call_stack' = Append(call_stack, ReturnAddress(pc))
                     /\ pc' = func_addr
                     /\ Ok
    /\ UNCHANGED <<stack, registers, memory>>
    /\ Fixed


\* mutant of Return: the frame that is left takes the top of the operand
\* stack with it
Return_DropsOperand ==
    /\ Running /\ ix.opcode = "Return"
    /\ IF call_stack = <<>>
       THEN /\ Err(CallStackUnderflow)
            /\ UNCHANGED <<pc, call_stack, stack>>
       ELSE /\ pc' = Top(call_stack)
            /\ call_stack' = Popped(call_stack)
            /\ stack' = IF stack = <<>> THEN stack ELSE Popped(stack)
            /\ Ok
    /\ UNCHANGED <<registers, memory>>
    /\ Fixed

Return ==
    /\ Running /\ ix.opcode = "Return"
    /\ IF call_stack = <<>>
       THEN /\ Err(CallStackUnderflow)
            /\ UNCHANGED <<pc, call_stack>>
       ELSE /\ pc' = Top(call_stack)
            /\ call_stack' = Popped(call_stack)
            /\ Ok
    /\ UNCHANGED <<stack, registers, memory>>
    /\ Fixed

(***************************************************************************)
(* execute_ix: the memory handlers and Exit.                               *)
(***************************************************************************)
Load ==
    /\ Running /\ ix.opcode = "Load"
    /\ IF ix.operands = <<>>
       THEN /\ Err("Load requires an address operand")
            /\ UNCHANGED <<pc, stack>>
       ELSE LET addr == AsUsize(ix.operands[1])
            IN  /\ Len(stack) < MaxStack
                /\ stack' = Append(stack, MemGet(memory, addr))
                /\ pc' = pc + 1
                /\ Ok
    /\ UNCHANGED <<call_stack, registers, memory>>
    /\ Fixed

Store ==
    /\ Running /\ ix.opcode = "Store"
    /\ IF ix.operands = <<>>
       THEN /\ Err("Store requires an address operand")
            /\ UNCHANGED <<pc, stack, memory>>
       ELSE LET addr == AsUsize(ix.operands[1])
            IN  IF stack = <<>>
                THEN /\ Err("Stack Underflow => value in Store Op")
                     /\ UNCHANGED <<pc, stack, memory>>
                ELSE /\ stack' = Popped(stack)
                     /\ memory' = MemInsert(memory, addr, Top(stack))
                     /\ pc' = pc + 1
                     /\ Ok
    /\ UNCHANGED <<call_stack, registers>>
    /\ Fixed

\* mutant of Exit: pc advances as in the other handlers
Exit_Advances ==
    /\ Running /\ ix.opcode = "Exit"
    /\ pc' = pc + 1
    /\ Ok
    /\ UNCHANGED <<stack, call_stack, registers, memory>>
    /\ Fixed

Exit ==
    /\ Running /\ ix.opcode = "Exit"
    /\ Ok
    /\ UNCHANGED <<pc, stack, call_stack, registers, memory>>
    /\ Fixed

(***************************************************************************)
(* run: the test after execute_ix (lines 81-83) and the end of the loop    *)
(* (lines 62, 86).                                                         *)
(***************************************************************************)
\* mutant of ExitValue: the counter register
ExitValue_Reg1 == registers[1]

\* the value run returns at Exit
ExitValue == registers[0]

\* self.program[self.pc] indexes the Vec: past its end the thread panics
CheckExit ==
    /\ status = "check"
    /\ IF pc >= Len(program)
       THEN /\ Panic(IndexOutOfBounds)
            /\ UNCHANGED result
       ELSE IF program[pc + 1].opcode = "Exit"
       THEN /\ status' = "halted"
            /\ result' = ExitValue
            /\ UNCHANGED error
       ELSE /\ status' = "fetch"
            /\ UNCHANGED <<result, error>>
    /\ UNCHANGED <<pc, stack, call_stack, registers, memory, program,
                   overflow_checks>>

LoopExit ==
    /\ status = "fetch"
    /\ pc >= Len(program)
    /\ Err(ProgramTerminatedWithoutExit)
    /\ UNCHANGED <<pc, stack, call_stack, registers, memory>>
    /\ Fixed

(***************************************************************************)
(* The programs run is checked on: every program of at most MaxLen         *)
(* instructions over Instrs, the families below, and the program of main.  *)
(***************************************************************************)
PushVals == {0 - 3, 0, 2}

RegOperands == {0 - 1, 0, NumRegisters - 1, NumRegisters}

AddrOperands == {0 - 1, 0, 1}

Targets == (0 - 1) .. MaxLen

Instrs ==
    {Instruction(op, <<>>) : op \in OpCode}
    \cup {Instruction("Push", <<v>>) : v \in PushVals}
    \cup {Instruction(op, <<r>>) : op \in {"LoadReg", "StoreReg"}, r \in RegOperands}
    \cup {Instruction(op, <<a>>) : op \in {"Load", "Store"}, a \in AddrOperands}
    \cup {Instruction(op, <<t>>) :
              op \in {"Jump", "JumpEq", "JumpGt", "JumpLt", "Call"}, t \in Targets}

ShortPrograms == UNION {[1 .. n -> Instrs] : n \in 0 .. MaxLen}

I0(op) == Instruction(op, <<>>)

I1(op, x) == Instruction(op, <<x>>)

\* a OP b over a stack that holds 5 beneath the operands
ArithVals == {MinInt, 0 - 7, 0 - 1, 0, 2, 7, MaxInt}

ArithPrograms ==
    {<<I1("Push", 5), I1("Push", a), I1("Push", b), I0(op), I0("Exit")>> :
        a \in ArithVals, b \in ArithVals, op \in {"Add", "Sub", "Mul", "Div"}}

\* a conditional jump as the last instruction, and before an Exit
CompareVals == {0 - 1, 0, 1}

CondJumpPrograms ==
    {<<I1("Push", a), I1("Push", b), I1(op, t)>> \o tail :
        a \in CompareVals, b \in {0, 1}, op \in {"JumpEq", "JumpGt", "JumpLt"},
        t \in (0 - 1) .. 4, tail \in {<<>>, <<I0("Exit")>>}}

\* Push v; StoreReg r; LoadReg r
RegPrograms ==
    {<<I1("Push", v), I1("StoreReg", r), I1("LoadReg", r), I0("Exit")>> :
        v \in {0 - 7, 9}, r \in (0 - 2) .. (NumRegisters + 1)}

\* two stores, to the same address or to two, and a load
MemPrograms ==
    {<<I1("Push", v), I1("Store", a), I1("Push", 4), I1("Store", b),
       I1("Load", c), I0("Exit")>> :
        v \in {0 - 7, 9}, a \in AddrOperands, b \in AddrOperands,
        c \in AddrOperands \cup {3}}

\* nested calls, two calls in sequence, a call from the last instruction
CallPrograms ==
    {<<I1("Call", 2), I0("Exit"), I1("Call", 4), I0("Return"), I0("Return")>>,
     <<I1("Call", 3), I1("Call", 3), I0("Exit"), I0("Return")>>,
     <<I1("Jump", 2), I0("Return"), I1("Call", 1)>>}


\* a conditional jump inside a call, over a stack that holds 9 beneath the
\* operands, with register 3 and memory cell 1 written before
FramePrograms ==
    {<<I1("Push", 6), I1("StoreReg", 3), I1("Push", 8), I1("Store", 1),
       I1("Push", 9), I1("Call", 7), I0("Exit"),
       I1("Push", a), I1("Push", b), I1(op, 11), I0("Return"), I0("Return")>> :
        a \in {0, 1}, b \in {0, 1}, op \in {"JumpEq", "JumpGt", "JumpLt"}}

\* mutant of FactorialProgram: the JumpEq target 12 the comment of main warns of
FactorialProgram_Target12 ==
    <<I1("Push", 5), I1("StoreReg", 1),
      I1("Push", 1), I1("StoreReg", 0),
      I1("LoadReg", 1), I1("Push", 1), I1("JumpEq", 12),
      I1("LoadReg", 0), I1("LoadReg", 1), I0("Mul"), I1("StoreReg", 0),
      I1("LoadReg", 1), I1("Push", 1), I0("Sub"), I1("StoreReg", 1),
      I1("Jump", 4),
      I0("Exit")>>

\* the program of main: factorial of 5
FactorialProgram ==
    <<I1("Push", 5), I1("StoreReg", 1),
      I1("Push", 1), I1("StoreReg", 0),
      I1("LoadReg", 1), I1("Push", 1), I1("JumpEq", 16),
      I1("LoadReg", 0), I1("LoadReg", 1), I0("Mul"), I1("StoreReg", 0),
      I1("LoadReg", 1), I1("Push", 1), I0("Sub"), I1("StoreReg", 1),
      I1("Jump", 4),
      I0("Exit")>>

Programs ==
    ShortPrograms \cup ArithPrograms \cup CondJumpPrograms \cup RegPrograms
    \cup MemPrograms \cup CallPrograms \cup FramePrograms
    \cup {FactorialProgram}

(***************************************************************************)
(* Context::new, the build's overflow checks (on in a debug build, off in  *)
(* a release build) and the debug argument of run.                         *)
(***************************************************************************)
Init ==
    /\ pc = 0
    /\ stack = <<>>
    /\ call_stack = <<>>
    /\ registers = [i \in RegIndex |-> 0]
    /\ memory = [a \in {} |-> 0]
    /\ program \in Programs
    /\ overflow_checks \in BOOLEAN
    /\ status = "fetch"
    /\ result = 0
    /\ error = ""
    /\ debug \in BOOLEAN
    /\ printed = 0


\* mutant of Println: the trace after execute_ix prints the top of the
\* operand stack, and a traced iteration that leaves the stack empty does
\* not complete
Println_StackTop(d) ==
    /\ printed' = IF d THEN (IF status' = "check" THEN 5 ELSE 2) ELSE 0
    /\ d => stack' # <<>>
    /\ UNCHANGED debug

\* the println! calls of the loop iteration in a run with debug = d: two
\* lines before execute_ix, three more after it returned Ok; printed is the
\* number of lines the latest iteration has written. run does not write
\* its argument
Println(d) ==
    /\ printed' = IF d THEN (IF status' = "check" THEN 5 ELSE 2) ELSE 0
    /\ UNCHANGED debug

\* one step of run: execute_ix between the two traces, the Exit test, the
\* end of the loop
Next ==
    \/ Push /\ Println(debug)
    \/ Pop /\ Println(debug)
    \/ Add /\ Println(debug)
    \/ Sub /\ Println(debug)
    \/ Mul /\ Println(debug)
    \/ Div /\ Println(debug)
    \/ LoadReg /\ Println(debug)
    \/ StoreReg /\ Println(debug)
    \/ Load /\ Println(debug)
    \/ Store /\ Println(debug)
    \/ Jump /\ Println(debug)
    \/ JumpEq /\ Println(debug)
    \/ JumpGt /\ Println(debug)
    \/ JumpLt /\ Println(debug)
    \/ Call /\ Println(debug)
    \/ Return /\ Println(debug)
    \/ Exit /\ Println(debug)
    \/ CheckExit /\ UNCHANGED <<debug, printed>>
    \/ LoopExit /\ UNCHANGED <<debug, printed>>

Spec == Init /\ [][Next]_vars

\* run is one sequential loop that executes to completion: a step that is
\* possible is taken
FairSpec == Spec /\ WF_vars(Next)

(***************************************************************************)
(* Vocabulary of the properties.                                           *)
(***************************************************************************)
N == Len(program)

\* run has ended: it returned Ok, returned Err, or panicked
Ended == status \in {"halted", "failed", "panicked"}

\* the operand of an instruction read as an unsigned word, written without
\* the cast of the handlers
Unsigned(x) == x % Modulus

\* q is the quotient of a by b rounded toward zero: the remainder is smaller
\* than b and has the sign of a
IsTruncatedQuotient(a, b, q) ==
    LET r == a - q * b
    IN  /\ Abs(r) < Abs(b)
        /\ (r = 0 \/ (r < 0) = (a < 0))

\* no Jump, JumpEq, JumpGt, JumpLt, Call or Return: instruction k runs after
\* instructions 0 .. k-1 have run once each, in order
StraightLine(p) ==
    \A i \in 1 .. Len(p) :
        p[i].opcode \notin {"Jump", "JumpEq", "JumpGt", "JumpLt", "Call", "Return"}

(***************************************************************************)
(* C1. If pc reaches N (the program length) without an Exit having been    *)
(* reached, run ends with the failure ProgramTerminatedWithoutExit and     *)
(* with no other outcome.                                                  *)
(* The code: pc reaches N inside the loop, after execute_ix, and line 81   *)
(* then indexes program[N]: run panics. Only the empty program fails with  *)
(* the error.                                                              *)
(***************************************************************************)
C1_ExhaustedFailsWithoutExit ==
    (Ended /\ pc = N) => (status = "failed" /\ error = ProgramTerminatedWithoutExit)

(***************************************************************************)
(* C2. Whenever run returns success with value v, pc indexes an Exit       *)
(* instruction of the program and v equals registers[0] in that state; run *)
(* never returns success in a state where program[pc] is not Exit.         *)
(***************************************************************************)
C2_SuccessOnlyAtExit ==
    status = "halted" =>
        /\ pc < N
        /\ program[pc + 1].opcode = "Exit"
        /\ result = registers[0]

C2_Witness ==
    /\ status = "halted"
    /\ pc = 3
    /\ result = 9
    /\ registers[1] = 0

(***************************************************************************)
(* C3. For all a and b pushed in the order a then b, with no overflow,     *)
(* Add, Sub, Mul and Div (b # 0) remove both and leave a+b, a-b, a*b, or   *)
(* a/b truncated toward zero on top of the stack: the second-popped value  *)
(* is the left operand, and the stack below the two operands is unchanged. *)
(***************************************************************************)
C3_Step ==
    (Running /\ ix.opcode \in {"Add", "Sub", "Mul", "Div"} /\ Len(stack) >= 2) =>
        LET b == stack[Len(stack)]
            a == stack[Len(stack) - 1]
            below == SubSeq(stack, 1, Len(stack) - 2)
        IN  /\ (ix.opcode = "Add" /\ ~Overflows(a + b)) =>
                stack' = Append(below, a + b)
            /\ (ix.opcode = "Sub" /\ ~Overflows(a - b)) =>
                stack' = Append(below, a - b)
            /\ (ix.opcode = "Mul" /\ ~Overflows(a * b)) =>
                stack' = Append(below, a * b)
            /\ (ix.opcode = "Div" /\ b # 0 /\ ~(a = MinInt /\ b = 0 - 1)) =>
                /\ Len(stack') = Len(stack) - 1
                /\ SubSeq(stack', 1, Len(stack) - 2) = below
                /\ IsTruncatedQuotient(a, b, stack'[Len(stack')])

C3_Arithmetic == [][C3_Step]_vars

\* -7 / 2 has left -3 above the 5
C3_Witness ==
    /\ status = "check"
    /\ pc = 4
    /\ program[4].opcode = "Div"
    /\ program[2].operands = <<0 - 7>>
    /\ program[3].operands = <<2>>
    /\ stack = <<5, 0 - 3>>

(***************************************************************************)
(* C4. Executing Div when the top of the operand stack is 0 always fails   *)
(* with DivisionByZero, regardless of the value a beneath it (and of       *)
(* whether there is one), and the run returns that error.                  *)
(***************************************************************************)
C4_Step ==
    (Running /\ ix.opcode = "Div" /\ stack # <<>> /\ stack[Len(stack)] = 0) =>
        (status' = "failed" /\ error' = "Division by zero")

C4_DivisionByZero == [][C4_Step]_vars

C4_Witness ==
    /\ status = "failed"
    /\ error = "Division by zero"
    /\ program[pc + 1].opcode = "Div"
    /\ stack = <<5, MinInt>>

(***************************************************************************)
(* C5. For every value v and every register index r in 0..10, the sequence *)
(* Push v; StoreReg r; LoadReg r leaves v on top of the stack and          *)
(* registers[r] = v with all other registers unchanged; for every operand  *)
(* r outside 0..10 (negative operands too) StoreReg r and LoadReg r fail   *)
(* with InvalidRegisterIndex.                                              *)
(* The round trip is stated where the three instructions have just run in  *)
(* sequence; the single steps are stated for every program.                *)
(***************************************************************************)
C5_RoundTrip ==
    (/\ StraightLine(program)
     /\ status = "check"
     /\ pc >= 3
     /\ program[pc - 2].opcode = "Push"
     /\ program[pc - 1].opcode = "StoreReg"
     /\ program[pc].opcode = "LoadReg"
     /\ program[pc - 2].operands # <<>>
     /\ program[pc - 1].operands # <<>>
     /\ program[pc].operands = program[pc - 1].operands
     /\ program[pc].operands[1] \in RegIndex) =>
        /\ stack # <<>>
        /\ stack[Len(stack)] = program[pc - 2].operands[1]
        /\ registers[program[pc].operands[1]] = program[pc - 2].operands[1]

C5_Step ==
    /\ (/\ Running
        /\ ix.opcode \in {"LoadReg", "StoreReg"}
        /\ ix.operands # <<>>
        /\ ix.operands[1] \notin RegIndex) =>
            (status' = "failed" /\ error' = "Invalid register index")
    /\ (/\ Running
        /\ ix.opcode = "StoreReg"
        /\ ix.operands # <<>>
        /\ ix.operands[1] \in RegIndex
        /\ stack # <<>>) =>
            /\ status' = "check"
            /\ stack' = SubSeq(stack, 1, Len(stack) - 1)
            /\ registers' =
                 [i \in RegIndex |->
                     IF i = ix.operands[1] THEN stack[Len(stack)] ELSE registers[i]]
    /\ (/\ Running
        /\ ix.opcode = "LoadReg"
        /\ ix.operands # <<>>
        /\ ix.operands[1] \in RegIndex) =>
            /\ status' = "check"
            /\ stack' = Append(stack, registers[ix.operands[1]])
            /\ registers' = registers
    /\ (Running /\ ix.opcode = "Push") => registers' = registers

C5_RegisterRoundTrip == [](C5_RoundTrip) /\ [][C5_Step]_vars

C5_Witness ==
    /\ status = "check"
    /\ pc = 3
    /\ program[1] = Instruction("Push", <<9>>)
    /\ program[2] = Instruction("StoreReg", <<10>>)
    /\ program[3] = Instruction("LoadReg", <<10>>)
    /\ stack = <<9>>
    /\ registers[10] = 9

(***************************************************************************)
(* C6. For every value v and address addr, Push v; Store addr; Load addr   *)
(* leaves v on top of the stack; after any sequence of instructions, Load  *)
(* of an address that no Store has written pushes 0, and Load of a written *)
(* address pushes the value of the most recent Store to that address.      *)
(* In a program without control transfer the Stores that ran before a Load *)
(* are the Stores before it in the program; in every program a Load pushes *)
(* what memory holds, and memory is changed by Store alone.                *)
(***************************************************************************)
\* the instructions before position k (1-based) that store to address addr
StoresTo(addr, k) ==
    {j \in 1 .. (k - 1) :
        /\ program[j].opcode = "Store"
        /\ program[j].operands # <<>>
        /\ Unsigned(program[j].operands[1]) = addr}

Latest(S) == CHOOSE j \in S : \A i \in S : i <= j

C6_RoundTrip ==
    (/\ StraightLine(program)
     /\ status = "check"
     /\ pc >= 1
     /\ program[pc].opcode = "Load"
     /\ program[pc].operands # <<>>) =>
        LET writers == StoresTo(Unsigned(program[pc].operands[1]), pc)
        IN  /\ stack # <<>>
            /\ writers = {} => stack[Len(stack)] = 0
            /\ (/\ writers # {}
                /\ Latest(writers) >= 2
                /\ program[Latest(writers) - 1].opcode = "Push"
                /\ program[Latest(writers) - 1].operands # <<>>) =>
                    stack[Len(stack)] = program[Latest(writers) - 1].operands[1]

C6_Step ==
    /\ (Running /\ ix.opcode = "Load" /\ ix.operands # <<>>) =>
        LET addr == Unsigned(ix.operands[1])
        IN  /\ status' = "check"
            /\ stack' = Append(stack, IF addr \in DOMAIN memory THEN memory[addr] ELSE 0)
    /\ (memory' # memory) =>
        /\ Running
        /\ ix.opcode = "Store"
        /\ ix.operands # <<>>
        /\ stack # <<>>
        /\ DOMAIN memory' = DOMAIN memory \cup {Unsigned(ix.operands[1])}
        /\ memory'[Unsigned(ix.operands[1])] = stack[Len(stack)]
        /\ \A x \in DOMAIN memory :
              x # Unsigned(ix.operands[1]) => memory'[x] = memory[x]
    /\ (Running /\ ix.opcode = "Store" /\ ix.operands # <<>> /\ stack # <<>>) =>
        /\ Unsigned(ix.operands[1]) \in DOMAIN memory'
        /\ memory'[Unsigned(ix.operands[1])] = stack[Len(stack)]

C6_MemoryRoundTrip == [](C6_RoundTrip) /\ [][C6_Step]_vars

\* the second Store to address 1 replaced the 9 of the first
C6_Witness ==
    /\ status = "check"
    /\ pc = 5
    /\ program[1] = Instruction("Push", <<9>>)
    /\ program[2] = Instruction("Store", <<1>>)
    /\ program[4] = Instruction("Store", <<1>>)
    /\ program[5] = Instruction("Load", <<1>>)
    /\ stack = <<4>>
    /\ memory[1] = 4

(***************************************************************************)
(* C7. For every Call executed at program index c, the Return that matches *)
(* it (LIFO pairing, nested calls included) sets pc to exactly c+1; a      *)
(* Return executed when the call stack is empty fails with                 *)
(* CallStackUnderflow.                                                     *)
(* A Call at c appends c+1 to the call stack, no other instruction writes  *)
(* the call stack, and a Return removes the last entry and makes it pc: so *)
(* every entry is the successor of a Call's index, and the Return that     *)
(* removes the entry a Call appended resumes after that Call.              *)
(***************************************************************************)
C7_ReturnAddresses ==
    \A i \in 1 .. Len(call_stack) :
        /\ call_stack[i] \in 1 .. N
        /\ program[call_stack[i]].opcode = "Call"

C7_Step ==
    /\ (Running /\ ix.opcode = "Call" /\ status' = "check") =>
        call_stack' = Append(call_stack, pc + 1)
    /\ (Running /\ ix.opcode = "Return" /\ call_stack # <<>>) =>
        /\ status' = "check"
        /\ pc' = call_stack[Len(call_stack)]
        /\ call_stack' = SubSeq(call_stack, 1, Len(call_stack) - 1)
    /\ (Running /\ ix.opcode = "Return" /\ call_stack = <<>>) =>
        /\ status' = "failed"
        /\ error' = "Call stack underflow (unmatched return)"
    /\ (~Running \/ ix.opcode \notin {"Call", "Return"}) =>
        call_stack' = call_stack

C7_CallReturn == [](C7_ReturnAddresses) /\ [][C7_Step]_vars

\* the Return of the inner Call (index 2) has resumed at 3, under the frame
\* of the outer Call (index 0)
C7_Witness ==
    /\ status = "check"
    /\ Len(program) = 5
    /\ program[1] = Instruction("Call", <<2>>)
    /\ program[3] = Instruction("Call", <<4>>)
    /\ program[5].opcode = "Return"
    /\ pc = 3
    /\ call_stack = <<1>>

(***************************************************************************)
(* C8. Running the 17-instruction factorial program of main from a fresh   *)
(* Context terminates with success and result 120.                         *)
(***************************************************************************)
C8_Factorial ==
    (program = FactorialProgram) ~> (status = "halted" /\ result = 120)

C8_Witness ==
    /\ Len(program) = 17
    /\ program[7] = Instruction("JumpEq", <<16>>)
    /\ program[16] = Instruction("Jump", <<4>>)
    /\ status = "halted"
    /\ pc = 16
    /\ result = 120
    /\ registers[1] = 1

(***************************************************************************)
(* C9. Jump, JumpEq, JumpGt and JumpLt with a target operand outside       *)
(* [0, N) (negative operands and target = N included) fail with            *)
(* JumpTargetOutOfBounds, for the conditional jumps whether or not the     *)
(* comparison would have taken the branch.                                 *)
(* As claimed: after any successful Jump* the new pc is < N.               *)
(* As amended: after a successful Jump* that takes the branch the new pc   *)
(* is the target, which is < N; after a conditional jump that does not     *)
(* take the branch the new pc is pc + 1, which is N when the jump is the   *)
(* last instruction.                                                       *)
(***************************************************************************)
JumpStep ==
    /\ Running
    /\ ix.opcode \in {"Jump", "JumpEq", "JumpGt", "JumpLt"}
    /\ ix.operands # <<>>

BadTargetFails ==
    (ix.operands[1] \notin 0 .. (N - 1)) =>
        (status' = "failed" /\ error' = "Jump target out of bounds")

\* the branch of the jump at pc is taken: a is beneath b on the stack
Taken ==
    \/ ix.opcode = "Jump"
    \/ /\ Len(stack) >= 2
       /\ LET b == stack[Len(stack)]
              a == stack[Len(stack) - 1]
          IN  \/ ix.opcode = "JumpEq" /\ a = b
              \/ ix.opcode = "JumpGt" /\ a > b
              \/ ix.opcode = "JumpLt" /\ a < b

C9_OriginalStep ==
    JumpStep =>
        /\ BadTargetFails
        /\ status' = "check" => pc' < N

C9_JumpTargets_Original == [][C9_OriginalStep]_vars

C9_AmendedStep ==
    JumpStep =>
        /\ BadTargetFails
        /\ status' = "check" =>
              IF Taken
              THEN pc' = ix.operands[1] /\ pc' < N
              ELSE pc' = pc + 1

C9_JumpTargets == [][C9_AmendedStep]_vars

\* JumpEq to N over two equal operands has failed on its target
C9_Witness ==
    /\ status = "failed"
    /\ error = "Jump target out of bounds"
    /\ program[pc + 1].opcode = "JumpEq"
    /\ program[pc + 1].operands = <<N>>
    /\ Len(stack) = 2
    /\ stack[1] = stack[2]

(***************************************************************************)
(* C10. StoreReg checks the register index before popping: when StoreReg   *)
(* fails with InvalidRegisterIndex the operand stack and the registers are *)
(* unchanged, and when the index is valid and the stack is non-empty the   *)
(* pop and the register store are both performed.                          *)
(***************************************************************************)
C10_Step ==
    (Running /\ ix.opcode = "StoreReg") =>
        /\ (status' = "failed" /\ error' = "Invalid register index") =>
              (stack' = stack /\ registers' = registers)
        /\ (ix.operands # <<>> /\ ix.operands[1] \notin RegIndex) =>
              /\ status' = "failed"
              /\ error' = "Invalid register index"
              /\ stack' = stack
        /\ (ix.operands # <<>> /\ ix.operands[1] \in RegIndex /\ stack # <<>>) =>
              /\ Len(stack') = Len(stack) - 1
              /\ registers'[ix.operands[1]] = stack[Len(stack)]
              /\ pc' = pc + 1

C10_StoreRegChecksFirst == [][C10_Step]_vars

\* StoreReg 11 has failed over a stack that still holds its value
C10_Witness ==
    /\ status = "failed"
    /\ error = "Invalid register index"
    /\ program[pc + 1] = Instruction("StoreReg", <<NumRegisters>>)
    /\ stack = <<9>>

(***************************************************************************)
(* C11. As claimed: every handler except Jump, JumpEq, JumpGt, JumpLt,     *)
(* Call and Return (that is Push, Pop, Add, Sub, Mul, Div, LoadReg,        *)
(* StoreReg, Load, Store and Exit) advances pc by exactly 1 when it        *)
(* succeeds; the control-transfer handlers set pc themselves and do not    *)
(* additionally increment it.                                              *)
(* As amended: Exit is not among them, it succeeds and leaves pc where it  *)
(* is. A control-transfer handler sets pc to its target (a taken jump, a   *)
(* Call), to pc + 1 (a conditional jump not taken) or to the popped return *)
(* address (Return), and run does not change pc after a handler.           *)
(***************************************************************************)
Advancing ==
    {"Push", "Pop", "Add", "Sub", "Mul", "Div", "LoadReg", "StoreReg",
     "Load", "Store"}

\* the handler of the instruction at pc returns Ok(()) in this step
Succeeds == Running /\ status' = "check"

C11_OriginalStep ==
    (Succeeds /\ ix.opcode \in Advancing \cup {"Exit"}) => pc' = pc + 1

C11_PcAdvance_Original == [][C11_OriginalStep]_vars

C11_AmendedStep ==
    /\ (Succeeds /\ ix.opcode \in Advancing) => pc' = pc + 1
    /\ (Succeeds /\ ix.opcode = "Exit") => pc' = pc
    /\ (Succeeds /\ ix.opcode \in {"Jump", "JumpEq", "JumpGt", "JumpLt"}) =>
          pc' = IF Taken THEN Unsigned(ix.operands[1]) ELSE pc + 1
    /\ (Succeeds /\ ix.opcode = "Call") => pc' = Unsigned(ix.operands[1])
    /\ (Succeeds /\ ix.opcode = "Return") => pc' = call_stack[Len(call_stack)]
    /\ (status = "check") => pc' = pc

C11_PcAdvance == [][C11_AmendedStep]_vars

\* Exit, the first instruction, has returned Ok and pc is still 0
C11_Witness ==
    /\ status = "check"
    /\ pc = 0
    /\ N = 2
    /\ program[1].opcode = "Exit"
    /\ program[2].opcode = "Push"

(***************************************************************************)
(* C12. Pop, StoreReg (valid index) and Store executed on an empty operand *)
(* stack, and Add, Sub, Mul, Div, JumpEq, JumpGt, JumpLt (valid target)    *)
(* executed on a stack with fewer than 2 elements, fail with               *)
(* StackUnderflow; no instruction ever removes an element from an empty    *)
(* operand stack or call stack.                                            *)
(* The code: the failed pop of StoreReg returns "Stack Overflow =>         *)
(* StoreReg Op". (Div over the one-element stack <<0>> returns "Division   *)
(* by zero": it tests b before it pops a.)                                 *)
(***************************************************************************)
\* the errors that name a stack underflow
SaysUnderflow == StackUnderflow \ {"Stack Overflow => StoreReg Op"}

FailsWithUnderflow == status' = "failed" /\ error' \in SaysUnderflow

C12_Step ==
    /\ (Running /\ ix.opcode = "Pop" /\ stack = <<>>) => FailsWithUnderflow
    /\ (/\ Running
        /\ ix.opcode = "StoreReg"
        /\ ix.operands # <<>>
        /\ ix.operands[1] \in RegIndex
        /\ stack = <<>>) => FailsWithUnderflow
    /\ (Running /\ ix.opcode = "Store" /\ ix.operands # <<>> /\ stack = <<>>) =>
          FailsWithUnderflow
    /\ (Running /\ ix.opcode \in {"Add", "Sub", "Mul", "Div"} /\ Len(stack) < 2) =>
          FailsWithUnderflow
    /\ (/\ Running
        /\ ix.opcode \in {"JumpEq", "JumpGt", "JumpLt"}
        /\ ix.operands # <<>>
        /\ ix.operands[1] \in 0 .. (N - 1)
        /\ Len(stack) < 2) => FailsWithUnderflow
    /\ (Len(stack') < Len(stack)) => stack # <<>>
    /\ (Len(call_stack') < Len(call_stack)) => call_stack # <<>>

C12_Underflow == [][C12_Step]_vars

(***************************************************************************)
(* C13. Integer overflow is handled under one uniform policy: for Add, Sub *)
(* and Mul on operands whose mathematical result lies outside the signed   *)
(* range of the word (and for Div of the minimum by -1), either every such *)
(* operation wraps or every such operation fails with an explicit error    *)
(* value; none of them ends the run in an outcome outside the value /      *)
(* error result contract.                                                  *)
(* Stated for one operation: it pushes the wrapped result and succeeds, or *)
(* run returns an Err; it does not panic. The code: + - * panic in a build *)
(* with overflow checks and wrap in one without, and the minimum divided   *)
(* by -1 panics in both.                                                   *)
(***************************************************************************)
\* the mathematical result of the arithmetic instruction at pc
MathResult ==
    LET b == stack[Len(stack)]
        a == stack[Len(stack) - 1]
    IN  CASE ix.opcode = "Add" -> a + b
          [] ix.opcode = "Sub" -> a - b
          [] ix.opcode = "Mul" -> a * b
          [] ix.opcode = "Div" -> IF a = MinInt /\ b = 0 - 1 THEN MaxInt + 1 ELSE 0

OverflowStep ==
    /\ Running
    /\ ix.opcode \in {"Add", "Sub", "Mul", "Div"}
    /\ Len(stack) >= 2
    /\ Overflows(MathResult)

C13_Step ==
    OverflowStep =>
        \/ /\ status' = "check"
           /\ stack' = Append(SubSeq(stack, 1, Len(stack) - 2), Wrap(MathResult))
        \/ /\ status' = "failed"
           /\ error' # ""

C13_OverflowPolicy == [][C13_Step]_vars

(***************************************************************************)
(* C14. The first handler failure ends the run: after an instruction fails *)
(* no further instruction is fetched or executed, run returns exactly that *)
(* error, and Halted(value) and Failed(error) are terminal states from     *)
(* which no state variable changes.                                        *)
(***************************************************************************)
\* the Err values of execute_ix
HandlerErrors ==
    StackUnderflow \cup MissingOperand
    \cup {DivisionByZero, InvalidRegisterIndex, JumpTargetOutOfBounds,
          FunctionAddressOutOfBounds, CallStackUnderflow}

C14_Step ==
    /\ (status \in {"halted", "failed"}) => UNCHANGED vars
    /\ (status = "fetch" /\ pc < N /\ status' = "failed") =>
          /\ error' \in HandlerErrors
          /\ pc' = pc

C14_FailureIsFinal == [][C14_Step]_vars

\* Pop has failed at index 0 of a program whose index 1 is never fetched
C14_Witness ==
    /\ status = "failed"
    /\ error = "Stack Underflow => => b in Pop Op"
    /\ pc = 0
    /\ N = 2
    /\ program[1].opcode = "Pop"
    /\ program[2].opcode = "Push"
    /\ stack = <<>>

(***************************************************************************)
(* C15. For a fixed program the outcome of run and the sequence of machine *)
(* states it passes through are a function of the program alone: two runs  *)
(* step identically, and a run with debug tracing enabled passes through   *)
(* the same states and returns the same result as a run without it.        *)
(***************************************************************************)
\* what a run is made of besides its trace: the Context, the position in
\* the loop and the value run returns
ctx == <<pc, stack, call_stack, registers, memory, program, status, result,
         error>>

\* one step of run(d): an iteration of the loop with its trace, the Exit
\* test, or the end of the loop
RunWith(d) ==
    \/ /\ \/ Push \/ Pop \/ Add \/ Sub \/ Mul \/ Div
          \/ LoadReg \/ StoreReg \/ Load \/ Store
          \/ Jump \/ JumpEq \/ JumpGt \/ JumpLt \/ Call \/ Return \/ Exit
       /\ Println(d)
    \/ (CheckExit \/ LoopExit) /\ UNCHANGED <<debug, printed>>

\* the step taken is the only step of run(d) from this state, for either
\* value of d (on one build of the program: overflow_checks is fixed)
C15_Step ==
    \A v \in {ctx'} : \A d \in BOOLEAN :
        /\ ENABLED (RunWith(d) /\ ctx' = v)
        /\ ~ ENABLED (RunWith(d) /\ ctx' # v)

C15_Deterministic == [][C15_Step]_vars

\* a traced run of the factorial program has returned 120
C15_Witness ==
    /\ debug
    /\ printed = 5
    /\ program = FactorialProgram
    /\ status = "halted"
    /\ result = 120
    /\ stack = <<>>

(***************************************************************************)
(* C16. JumpEq, JumpGt and JumpLt with a valid target and at least two     *)
(* stack elements pop b (the top) and then a (beneath it) and consume      *)
(* both; pc becomes the target exactly when a = b, a > b, a < b            *)
(* respectively and pc + 1 otherwise; registers, memory and call stack are *)
(* unchanged.                                                              *)
(***************************************************************************)
CondJumpStep ==
    /\ Running
    /\ ix.opcode \in {"JumpEq", "JumpGt", "JumpLt"}
    /\ ix.operands # <<>>
    /\ ix.operands[1] \in 0 .. (N - 1)
    /\ Len(stack) >= 2

C16_Step ==
    CondJumpStep =>
        LET b == stack[Len(stack)]
            a == stack[Len(stack) - 1]
            holds == CASE ix.opcode = "JumpEq" -> a = b
                       [] ix.opcode = "JumpGt" -> a > b
                       [] ix.opcode = "JumpLt" -> a < b
        IN  /\ status' = "check"
            /\ stack' = SubSeq(stack, 1, Len(stack) - 2)
            /\ pc' = IF holds THEN ix.operands[1] ELSE pc + 1
            /\ UNCHANGED <<registers, memory, call_stack>>

C16_ConditionalJumps == [][C16_Step]_vars

\* JumpGt over a = 1 and b = 0 has been taken inside a call: 9 is left on
\* the stack
C16_Witness ==
    /\ status = "check"
    /\ pc = 11
    /\ program \in FramePrograms
    /\ program[10].opcode = "JumpGt"
    /\ program[8] = I1("Push", 1)
    /\ program[9] = I1("Push", 0)
    /\ stack = <<9>>
    /\ call_stack = <<6>>
    /\ registers[3] = 6
    /\ MemGet(memory, 1) = 8

(***************************************************************************)
(* C17. Call with target operand t succeeds exactly when 0 <= t <= N (N    *)
(* itself is accepted, unlike Jump): it pushes pc + 1 onto the call stack  *)
(* and sets pc = t; for t < 0 or t > N it fails and leaves pc and the call *)
(* stack unchanged.                                                        *)
(***************************************************************************)
CallStep ==
    /\ Running
    /\ ix.opcode = "Call"
    /\ ix.operands # <<>>

C17_Step ==
    CallStep =>
        LET t == ix.operands[1]
        IN  IF t \in 0 .. N
            THEN /\ status' = "check"
                 /\ call_stack' = Append(call_stack, pc + 1)
                 /\ pc' = t
            ELSE /\ status' = "failed"
                 /\ UNCHANGED <<pc, call_stack>>

C17_CallTargets == [][C17_Step]_vars

\* the Call at index 0 to the length of the program has succeeded
C17_Witness ==
    /\ status = "check"
    /\ N = 2
    /\ program[1] = I1("Call", 2)
    /\ pc = 2
    /\ call_stack = <<1>>

(***************************************************************************)
(* C18. The operand stack and the call stack are independent: Call and     *)
(* Return leave the operand stack, the registers and the memory unchanged; *)
(* every opcode other than Call and Return leaves the call stack           *)
(* unchanged; and no instruction ever changes the loaded program.          *)
(***************************************************************************)
C18_Step ==
    /\ (Running /\ ix.opcode \in {"Call", "Return"}) =>
          UNCHANGED <<stack, registers, memory>>
    /\ (Running /\ ix.opcode \notin {"Call", "Return"}) =>
          UNCHANGED call_stack
    /\ UNCHANGED program

C18_StacksIndependent == [][C18_Step]_vars

\* the Return of a call that left 9 on the operand stack, with register 3
\* and memory cell 1 written before the call
C18_Witness ==
    /\ status = "check"
    /\ program \in FramePrograms
    /\ pc = 6
    /\ call_stack = <<>>
    /\ stack = <<9>>
    /\ registers[3] = 6
    /\ MemGet(memory, 1) = 8

(***************************************************************************)
(* C19. In every reachable state of run, 0 <= pc <= N, the register file   *)
(* has exactly 11 entries, and every return address stored on the call     *)
(* stack lies in 1 .. N.                                                   *)
(***************************************************************************)
C19_Ranges ==
    /\ pc \in 0 .. N
    /\ Cardinality(DOMAIN registers) = 11
    /\ DOMAIN registers = 0 .. 10
    /\ \A i \in 1 .. Len(call_stack) : call_stack[i] \in 1 .. N

\* the Call of the last instruction to the length of the program: pc and
\* the return address are both N
C19_Witness ==
    /\ N = 2
    /\ program[2] = I1("Call", 2)
    /\ pc = N
    /\ call_stack = <<N>>
    /\ status = "check"

(***************************************************************************)
(* C20. For every program that contains no Jump, JumpEq, JumpGt, JumpLt,   *)
(* Call or Return instruction, pc strictly increases with each successful  *)
(* non-Exit instruction and run stops, reaching Halted or Failed, after    *)
(* executing at most N instructions.                                       *)
(* The indices of the executed instructions increase, so no instruction    *)
(* runs twice and at most N run; but a run that executes its last          *)
(* instruction without meeting an Exit indexes program[N] at line 81, and  *)
(* an overflow with overflow checks panics: such a run stops neither       *)
(* Halted nor Failed.                                                      *)
(***************************************************************************)
\* a successful instruction other than Exit moves pc forward
C20_Step ==
    (/\ StraightLine(program)
     /\ Running
     /\ ix.opcode # "Exit"
     /\ status' = "check") => pc' > pc

C20_PcIncreases == [][C20_Step]_vars

C20_StraightLineStops ==
    /\ C20_PcIncreases
    /\ StraightLine(program) ~> (status \in {"halted", "failed"})

====
